---- MODULE Spec2Model ----
(***************************************************************************)
(* Flight monitor: the date-pair sampler (generate_date_pairs), the price  *)
(* and stop normalizers (parse_price, parse_stops, process_results) and    *)
(* the search orchestrator (main) of monitor.py.                           *)
(*                                                                         *)
(* Text is modelled as a sequence of one-character strings.  A calendar    *)
(* date is its proleptic Gregorian ordinal (date.toordinal()); a date      *)
(* string "%Y-%m-%d" is the tuple <<y, m, d>> and a date string "%d/%m/%Y" *)
(* is the tuple <<d, m, y>>.                                               *)
(***************************************************************************)
EXTENDS Integers, Sequences, FiniteSets, TLC

VARIABLES
    config,          \* the loaded configuration (plus the value of date.today())
    pc,              \* position of the run
    current,         \* generate_date_pairs: the departure date being walked
    pairs,           \* generate_date_pairs: the pairs appended so far / returned
    unique_returns,  \* main: (ret_date, origin) -> return_info or None
    ret_keys,        \* main: insertion order of the keys of unique_returns
    all_flights,     \* main: offers accumulated in phase 1
    search_count,    \* main: phase-1 searches started
    ret_count,       \* main: phase-2 searches started
    errors,          \* main: phase-1 searches that gave no result object
    calls,           \* number of search_flights invocations made so far
    kept,            \* offers process_results built in the searches that succeeded
    deduped,         \* main: unique_flights as built by the duplicate filter
    unique_flights,  \* main: unique_flights after the sort (the emitted list)
    history,         \* what save_history appended in this run
    notified,        \* whether a notification was sent in this run
    events,          \* the search_flights invocations and time.sleep calls, in order
    last_search,     \* the latest search: its phase, its query and what it gave
    f_pc,            \* _fetch_flights: the position of the call
    browser,         \* _fetch_flights: "none", "open" or "closed"
    f_exc,           \* _fetch_flights: an exception is on its way out
    dom,             \* _fetch_flights: the page that was loaded
    selector_found,  \* _fetch_flights: found, a result selector was seen
    flights_data,    \* _fetch_flights: what page.evaluate returned
    fallback_ran,    \* whether the page function entered its fallback block
    f_result,        \* _fetch_flights: the SearchResult returned
    fetches,         \* the calls of _fetch_flights so far
    leaked,          \* the browsers of earlier calls that were left open
    n_in,            \* normalizer: the listing(s) handed to process_results
    n_out            \* normalizer: what parse_price / parse_stops / process_results gave

vars == <<config, pc, current, pairs, unique_returns, ret_keys, all_flights,
          search_count, ret_count, errors, calls, kept, deduped, unique_flights,
          history, notified, events, last_search, f_pc, browser, f_exc, dom, selector_found,
          flights_data, fallback_ran, f_result, fetches, leaked, n_in, n_out>>

samplerVars == <<current, pairs>>
mainVars == <<unique_returns, ret_keys, all_flights, search_count, ret_count,
              errors, calls, kept, deduped, unique_flights, history, notified,
              events, last_search>>
normVars == <<n_in, n_out>>
fetchVars == <<f_pc, browser, f_exc, dom, selector_found, flights_data, fallback_ran, f_result,
               fetches, leaked>>

\* Python's None, and the ValueError / no-result value of the operators below
None == [none |-> TRUE]

-----------------------------------------------------------------------------
(* Calendar: datetime.date arithmetic, strftime and strptime.              *)

\* date(y, m, d).toordinal()
ToOrdinal(y, m, d) ==
    LET yy  == IF m <= 2 THEN y - 1 ELSE y
        era == yy \div 400
        yoe == yy - era * 400
        mp  == IF m > 2 THEN m - 3 ELSE m + 9
        doy == (153 * mp + 2) \div 5 + d - 1
        doe == yoe * 365 + yoe \div 4 - yoe \div 100 + doy
    IN  era * 146097 + doe - 305

\* date.fromordinal(n) as <<y, m, d>>
FromOrdinal(n) ==
    LET z   == n + 305
        era == z \div 146097
        doe == z - era * 146097
        yoe == (doe - doe \div 1460 + doe \div 36524 - doe \div 146096) \div 365
        doy == doe - (365 * yoe + yoe \div 4 - yoe \div 100)
        mp  == (5 * doy + 2) \div 153
        d   == doy - (153 * mp + 2) \div 5 + 1
        m   == IF mp < 10 THEN mp + 3 ELSE mp - 9
        y   == yoe + era * 400 + (IF m <= 2 THEN 1 ELSE 0)
    IN  <<y, m, d>>

\* d.strftime("%Y-%m-%d")
StrfIso(n) == FromOrdinal(n)

\* datetime.strptime(s, "%Y-%m-%d").date()
StrpIso(s) == ToOrdinal(s[1], s[2], s[3])

\* d.strftime("%d/%m/%Y")
StrfDmy(n) == LET t == FromOrdinal(n) IN <<t[3], t[2], t[1]>>

\* datetime.strptime(s, "%d/%m/%Y").date()
StrpDmy(s) == ToOrdinal(s[3], s[2], s[1])

\* datetime.strptime(x, "%Y-%m-%d").strftime("%d/%m/%Y")
IsoToDmy(s) == StrfDmy(StrpIso(s))

\* datetime.strptime(x, "%d/%m/%Y").strftime("%Y-%m-%d")
DmyToIso(s) == StrfIso(StrpDmy(s))

-----------------------------------------------------------------------------
(* generate_date_pairs                                                     *)

MAX_DAYS_AHEAD == 330

Max(a, b) == IF a >= b THEN a ELSE b
Min(a, b) == IF a <= b THEN a ELSE b

\* a horizon well beyond the one Google Flights shows
max_date_far(c) == c.today + 500

max_date(c) == c.today + MAX_DAYS_AHEAD
effective_start(c) == Max(StrpIso(c.date_from), c.today + 1)
effective_end(c) == Min(StrpIso(c.date_to), max_date(c))

\* [nights_min, nights_max], with the midpoint inserted at index 1
nights_options(c) ==
    IF c.nights_max - c.nights_min > 2
    THEN <<c.nights_min, (c.nights_min + c.nights_max) \div 2, c.nights_max>>
    ELSE <<c.nights_min, c.nights_max>>

\* the loop body without the horizon test on the return date
RECURSIVE PairsAtNoHorizon(_, _, _, _)
PairsAtNoHorizon(c, cur, opts, i) ==
    IF i > Len(opts) THEN <<>>
    ELSE << <<StrfIso(cur), StrfIso(cur + opts[i]), opts[i]>> >>
         \o PairsAtNoHorizon(c, cur, opts, i + 1)

\* the body of "for nights in nights_options" for one departure date:
\* the pairs appended for the options from index i on
RECURSIVE PairsAt(_, _, _, _)
PairsAt(c, cur, opts, i) ==
    IF i > Len(opts) THEN <<>>
    ELSE LET ret == cur + opts[i]
         IN  (IF ret <= max_date(c)
              THEN << <<StrfIso(cur), StrfIso(ret), opts[i]>> >>
              ELSE <<>>) \o PairsAt(c, cur, opts, i + 1)

\* lines 134-153: parse the window, clip it, return early when it is inverted
GenEnter ==
    /\ pc = "gen"
    /\ IF effective_start(config) > effective_end(config)
       THEN /\ pc' = "gen_ret"
            /\ current' = current
       ELSE /\ pc' = "gen_loop"
            /\ current' = effective_start(config)
    /\ pairs' = <<>>
    /\ UNCHANGED <<config, mainVars, normVars, fetchVars>>

\* the walk is followed until the list holds MaxPairs pairs; the lists of the
\* windows and steps of SamplerWindows and RunWindows stay below it
MaxPairs == 40

\* lines 154-163: one iteration of the while loop
GenLoop ==
    /\ pc = "gen_loop"
    /\ current <= effective_end(config)
    /\ Len(pairs) < MaxPairs
    /\ pairs' = pairs \o PairsAt(config, current, nights_options(config), 1)
    /\ current' = current + config.step
    /\ UNCHANGED <<config, pc, mainVars, normVars, fetchVars>>

\* line 164: the loop condition fails, the pairs are returned
GenReturn ==
    /\ pc = "gen_loop"
    /\ current > effective_end(config)
    /\ pc' = "gen_ret"
    /\ UNCHANGED <<config, samplerVars, mainVars, normVars, fetchVars>>

-----------------------------------------------------------------------------
(* Text helpers (str and re operations used by the normalizers).           *)

Digits == <<"0", "1", "2", "3", "4", "5", "6", "7", "8", "9">>
IsDigit(ch) == \E k \in 1..10 : Digits[k] = ch
DigitVal(ch) == (CHOOSE k \in 1..10 : Digits[k] = ch) - 1

UpperCase == <<"A", "B", "C", "D", "E", "F", "G", "H", "I", "J", "K", "L", "M",
               "N", "O", "P", "Q", "R", "S", "T", "U", "V", "W", "X", "Y", "Z">>
LowerCase == <<"a", "b", "c", "d", "e", "f", "g", "h", "i", "j", "k", "l", "m",
               "n", "o", "p", "q", "r", "s", "t", "u", "v", "w", "x", "y", "z">>

\* str.lower()
Lower(s) ==
    [i \in 1..Len(s) |->
        IF \E k \in 1..26 : UpperCase[k] = s[i]
        THEN LowerCase[CHOOSE k \in 1..26 : UpperCase[k] = s[i]]
        ELSE s[i]]

\* sub in s
Contains(s, sub) ==
    \E i \in 0..(Len(s) - Len(sub)) :
        \A j \in 1..Len(sub) : s[i + j] = sub[j]

\* ch in s
HasChar(s, ch) == \E i \in 1..Len(s) : s[i] = ch

\* s.rindex(ch), 0-based as in Python
RIndex(s, ch) == (CHOOSE i \in 1..Len(s) : s[i] = ch /\ \A j \in (i + 1)..Len(s) : s[j] # ch) - 1

\* s.replace(ch, "")
Remove(s, ch) == SelectSeq(s, LAMBDA x : x # ch)

\* s.replace(ch, by), by one character
Replace(s, ch, by) == [i \in 1..Len(s) |-> IF s[i] = ch THEN by ELSE s[i]]

\* re.sub(r"[^\d.,]", "", s)
KeepPriceChars(s) == SelectSeq(s, LAMBDA x : IsDigit(x) \/ x = "." \/ x = ",")

\* len(s.split(ch)[-1]): the length of what follows the last ch
LastPartLen(s, ch) == Len(s) - (RIndex(s, ch) + 1)

\* the integer written by a sequence of digits
RECURSIVE IntOf(_)
IntOf(ds) ==
    IF ds = <<>> THEN 0
    ELSE 10 * IntOf(SubSeq(ds, 1, Len(ds) - 1)) + DigitVal(ds[Len(ds)])

RECURSIVE Pow10(_)
Pow10(k) == IF k = 0 THEN 1 ELSE 10 * Pow10(k - 1)

-----------------------------------------------------------------------------
(* Numbers: a float read from a decimal literal is the exact decimal       *)
(* num / 10^scale, kept in lowest terms of 10 (1234.50 and 1234.5 are the  *)
(* same value).                                                            *)

RECURSIVE Dec(_, _)
Dec(num, scale) ==
    IF scale > 0 /\ num % 10 = 0 THEN Dec(num \div 10, scale - 1)
    ELSE [num |-> num, scale |-> scale]

\* float(s) for s made of digits and "."; ValueError is None
Float(s) ==
    LET dots == Len(SelectSeq(s, LAMBDA x : x = "."))
        ds   == Remove(s, ".")
    IN  IF dots > 1 \/ ds = <<>> \/ \E i \in 1..Len(ds) : ~IsDigit(ds[i])
        THEN None
        ELSE Dec(IntOf(ds), IF dots = 1 THEN LastPartLen(s, ".") ELSE 0)

\* parse_price
parse_price(price_str) ==
    IF price_str = <<>> THEN None
    ELSE
      LET cleaned == KeepPriceChars(price_str)
          fixed ==
            IF HasChar(cleaned, ",") /\ HasChar(cleaned, ".")
            THEN IF RIndex(cleaned, ",") > RIndex(cleaned, ".")
                 THEN Replace(Remove(cleaned, "."), ",", ".")
                 ELSE Remove(cleaned, ",")
            ELSE IF HasChar(cleaned, ",")
            THEN IF LastPartLen(cleaned, ",") = 3
                 THEN Remove(cleaned, ",")
                 ELSE Replace(cleaned, ",", ".")
            ELSE cleaned
      IN  Float(fixed)

\* the first maximal run of digits of s from position i on (re.search(r"(\d+)"))
RECURSIVE DigitRun(_, _)
DigitRun(s, i) ==
    IF i > Len(s) \/ ~IsDigit(s[i]) THEN <<>>
    ELSE <<s[i]>> \o DigitRun(s, i + 1)

FirstDigitAt(s) == CHOOSE i \in 1..Len(s) : IsDigit(s[i]) /\ \A j \in 1..(i - 1) : ~IsDigit(s[j])

\* a parse that looks for the digits before it looks for the nonstop words
ParseStopsDigitsFirst(stops_str) ==
    IF stops_str = <<>> THEN 0
    ELSE
      LET s == Lower(stops_str)
      IN  IF \E i \in 1..Len(s) : IsDigit(s[i])
          THEN IntOf(DigitRun(s, FirstDigitAt(s)))
          ELSE 0

\* parse_stops
parse_stops(stops_str) ==
    IF stops_str = <<>> THEN 0
    ELSE
      LET s == Lower(stops_str)
      IN  IF Contains(s, <<"n", "o", "n", "s", "t", "o", "p">>)
             \/ Contains(s, <<"d", "i", "r", "e", "t", "t">>)
          THEN 0
          ELSE IF \E i \in 1..Len(s) : IsDigit(s[i])
               THEN IntOf(DigitRun(s, FirstDigitAt(s)))
               ELSE 0


-----------------------------------------------------------------------------
(* process_results                                                         *)

KNOWN_AIRPORTS ==
    [MXP |-> "Malpensa", LIN |-> "Linate", BGY |-> "Bergamo", MLE |-> "Malé",
     FCO |-> "Fiumicino", VCE |-> "Venezia", BLQ |-> "Bologna", NAP |-> "Napoli",
     PMO |-> "Palermo", CTA |-> "Catania", TRN |-> "Torino", FLR |-> "Firenze",
     PSA |-> "Pisa"]

\* get_airport_name
get_airport_name(code) ==
    IF code \in DOMAIN KNOWN_AIRPORTS THEN KNOWN_AIRPORTS[code] ELSE code

\* build_url for the round trip: a deterministic function of the query
build_url(dep_date, ret_date, origin, destination, adults) ==
    <<"https://www.google.com/travel/flights", origin, destination, dep_date,
      destination, origin, ret_date, "round-trip", adults, "EUR">>

Diretto == <<"D", "i", "r", "e", "t", "t", "o">>

\* price / adults cut (not rounded) to 2 decimals
Round2Truncating(price, adults) ==
    {Dec((100 * price.num) \div (Pow10(price.scale) * adults), 2)}

\* round(price / adults, 2), in hundredths.  A float is rounded on its binary
\* value: a decimal tie that a float represents exactly (a fraction .125,
\* .375, .625, .875) goes to the even neighbour, any other decimal tie goes
\* whichever way the binary value of the quotient lies.
Round2(price, adults) ==
    LET den == Pow10(price.scale) * adults
        n   == 100 * price.num
        q   == n \div den
        r   == n % den
    IN  IF 2 * r < den THEN {Dec(q, 2)}
        ELSE IF 2 * r > den THEN {Dec(q + 1, 2)}
        ELSE IF (2 * q + 1) % 25 = 0
             THEN {Dec(IF q % 2 = 0 THEN q ELSE q + 1, 2)}
             ELSE {Dec(q, 2), Dec(q + 1, 2)}

\* the dict appended for listing f (lines 247-263)
Offer(f, price, price_pp, num_stops, origin, dep_date, ret_date, nights, c) ==
    [price_total |-> price,
     price_pp |-> price_pp,
     dep_date |-> IsoToDmy(dep_date),
     ret_date |-> IsoToDmy(ret_date),
     dep_airport |-> get_airport_name(origin),
     dest_airport |-> get_airport_name(c.destination),
     origin_code |-> origin,
     airline |-> f.airline,
     departure |-> f.departure,
     arrival |-> f.arrival,
     duration |-> f.duration,
     stops |-> num_stops,
     stops_detail |-> IF f.stops = <<>> THEN Diretto ELSE f.stops,
     nights |-> nights,
     link |-> build_url(dep_date, ret_date, origin, c.destination, c.adults)]

\* process_results without the max_stops filter
RECURSIVE ProcessFromNoStopFilter(_, _, _, _, _, _, _)
ProcessFromNoStopFilter(fl, i, origin, dep_date, ret_date, nights, c) ==
    IF i > Len(fl) THEN {<<>>}
    ELSE
      LET f     == fl[i]
          price == parse_price(f.price)
          rest  == ProcessFromNoStopFilter(fl, i + 1, origin, dep_date, ret_date, nights, c)
      IN  IF price = None THEN rest
          ELSE {<<Offer(f, price, pp, parse_stops(f.stops), origin, dep_date,
                        ret_date, nights, c)>> \o tl :
                   pp \in Round2(price, c.adults), tl \in rest}

\* the loop of process_results over result.flights from index i on: the set of
\* lists it can build (one list, unless a per-person price is a decimal tie)
RECURSIVE ProcessFrom(_, _, _, _, _, _, _)
ProcessFrom(fl, i, origin, dep_date, ret_date, nights, c) ==
    IF i > Len(fl) THEN {<<>>}
    ELSE
      LET f     == fl[i]
          price == parse_price(f.price)
          rest  == ProcessFrom(fl, i + 1, origin, dep_date, ret_date, nights, c)
      IN  IF price = None THEN rest
          ELSE LET num_stops == parse_stops(f.stops)
               IN  IF num_stops > c.max_stops THEN rest
                   ELSE {<<Offer(f, price, pp, num_stops, origin, dep_date,
                                 ret_date, nights, c)>> \o tl :
                            pp \in Round2(price, c.adults), tl \in rest}

\* process_results: result is None or a SearchResult [flights |-> listings]
process_results(result, origin, dep_date, ret_date, nights, c) ==
    IF result = None \/ result.flights = <<>> THEN {<<>>}
    ELSE ProcessFrom(result.flights, 1, origin, dep_date, ret_date, nights, c)


-----------------------------------------------------------------------------
(* main: the search orchestrator.                                          *)

\* run_search without the except clause: the exception leaves run_search
run_search_propagating(outcome) ==
    IF outcome.kind = "raise"
    THEN [raised |-> TRUE, value |-> None]
    ELSE [raised |-> FALSE, value |-> outcome.result]

\* run_search: the outcome of search_flights is an exception or a SearchResult;
\* the except clause turns the exception into None
run_search(outcome) ==
    IF outcome.kind = "raise"
    THEN [raised |-> FALSE, value |-> None]
    ELSE [raised |-> FALSE, value |-> outcome.result]

\* the first listing within max_stops among those whose price can be parsed
RECURSIVE FirstWithinStopsPriced(_, _, _)
FirstWithinStopsPriced(fl, i, c) ==
    IF i > Len(fl) THEN None
    ELSE LET f == fl[i]
             num_stops == parse_stops(f.stops)
         IN  IF num_stops <= c.max_stops /\ parse_price(f.price) # None
             THEN [ret_airline |-> f.airline,
                   ret_departure |-> f.departure,
                   ret_arrival |-> f.arrival,
                   ret_duration |-> f.duration,
                   ret_stops |-> num_stops,
                   ret_stops_detail |-> IF f.stops = <<>> THEN Diretto ELSE f.stops]
             ELSE FirstWithinStopsPriced(fl, i + 1, c)

\* the first listing of fl, from index i on, within max_stops, as return_info
RECURSIVE FirstWithinStops(_, _, _)
FirstWithinStops(fl, i, c) ==
    IF i > Len(fl) THEN None
    ELSE LET f == fl[i]
             num_stops == parse_stops(f.stops)
         IN  IF num_stops <= c.max_stops
             THEN [ret_airline |-> f.airline,
                   ret_departure |-> f.departure,
                   ret_arrival |-> f.arrival,
                   ret_duration |-> f.duration,
                   ret_stops |-> num_stops,
                   ret_stops_detail |-> IF f.stops = <<>> THEN Diretto ELSE f.stops]
             ELSE FirstWithinStops(fl, i + 1, c)

\* search_return_flights, given what run_search returned
search_return_flights(r, c) ==
    IF r.value = None \/ r.value.flights = <<>> THEN None
    ELSE FirstWithinStops(r.value.flights, 1, c)

\* one key per (pair, origin) combination, repeated keys included
RECURSIVE ReturnKeysWithDuplicates(_, _, _, _)
ReturnKeysWithDuplicates(ps, origins, k, acc) ==
    IF k > Len(ps) * Len(origins) THEN acc
    ELSE LET pair   == ps[((k - 1) \div Len(origins)) + 1]
             origin == origins[((k - 1) % Len(origins)) + 1]
         IN  ReturnKeysWithDuplicates(ps, origins, k + 1, Append(acc, <<pair[2], origin>>))

\* lines 503-506: the keys of unique_returns in insertion order, for the
\* (pair, origin) combinations from number k on
RECURSIVE ReturnKeys(_, _, _, _)
ReturnKeys(ps, origins, k, acc) ==
    IF k > Len(ps) * Len(origins) THEN acc
    ELSE LET pair   == ps[((k - 1) \div Len(origins)) + 1]
             origin == origins[((k - 1) % Len(origins)) + 1]
             key    == <<pair[2], origin>>
         IN  ReturnKeys(ps, origins, k + 1,
                        IF \E j \in 1..Len(acc) : acc[j] = key THEN acc
                        ELSE Append(acc, key))

outbound_searches == Len(pairs) * Len(config.origins)
return_searches == Len(ret_keys)

\* a total that counts one return search per outbound search
TotalTwiceOutbound == outbound_searches + outbound_searches

\* line 509
total_searches == outbound_searches + return_searches

\* a condition that stops sleeping with the last outbound search
SleepAfterOutboundOnly(k) == k < outbound_searches

\* line 544: whether time.sleep(delay) follows outbound search number k
SleepAfterOutbound(k) == k < total_searches

\* line 562: whether time.sleep(delay) follows return search number n
SleepAfterReturn(n) == n < return_searches

SearchEvent(phase, query) == [ev |-> "search", phase |-> phase, query |-> query]
SleepEvent == [ev |-> "sleep"]

\* dict.get(key): None for a missing key
Get(d, key) == IF key \in DOMAIN d THEN d[key] ELSE None

\* f.update(ret_info)
Update(f, info) ==
    [k \in DOMAIN f \cup DOMAIN info |-> IF k \in DOMAIN info THEN info[k] ELSE f[k]]

\* lines 566-577 for one offer
MergeOne(f, returns) ==
    LET ret_date_raw == DmyToIso(f.ret_date)
        ret_info == Get(returns, <<ret_date_raw, f.origin_code>>)
    IN  IF ret_info # None
        THEN Update(f, ret_info)
        ELSE Update(f, [ret_airline |-> f.airline,
                        ret_departure |-> "",
                        ret_arrival |-> "",
                        ret_duration |-> "N/D",
                        ret_stops |-> f.stops,
                        ret_stops_detail |-> f.stops_detail])

\* a merge that keeps only the offers whose return detail was found
MergeDropping(fl, returns) ==
    LET found == SelectSeq(fl, LAMBDA f :
                    Get(returns, <<DmyToIso(f.ret_date), f.origin_code>>) # None)
    IN  [i \in 1..Len(found) |-> MergeOne(found[i], returns)]

\* lines 566-577: every offer of all_flights is enriched in place
Merge(fl, returns) == [i \in 1..Len(fl) |-> MergeOne(fl[i], returns)]

\* a key that also tells offers apart by their duration text
DedupKeyWithDuration(f) ==
    <<f.price_total, f.dep_date, f.ret_date, f.dep_airport, f.airline, f.duration>>

\* line 583
DedupKey(f) == <<f.price_total, f.dep_date, f.ret_date, f.dep_airport, f.airline>>

\* lines 580-586: keep the first offer of every key
RECURSIVE Dedup(_, _, _)
Dedup(fl, i, seen) ==
    IF i > Len(fl) THEN <<>>
    ELSE IF DedupKey(fl[i]) \in seen
         THEN Dedup(fl, i + 1, seen)
         ELSE <<fl[i]>> \o Dedup(fl, i + 1, seen \cup {DedupKey(fl[i])})

\* a < b for two decimals
DecLess(a, b) == a.num * Pow10(b.scale) < b.num * Pow10(a.scale)
DecLeq(a, b) == ~DecLess(b, a)

\* x inserted into the sorted list s behind every element whose key is <= its own
RECURSIVE InsertSorted(_, _)
InsertSorted(s, x) ==
    IF s = <<>> THEN <<x>>
    ELSE IF DecLess(x.price_pp, s[1].price_pp)
         THEN <<x>> \o s
         ELSE <<s[1]>> \o InsertSorted(Tail(s), x)

\* no sort at all
Unsorted(fl) == fl

\* list.sort(key=price_pp): a stable sort, ascending
RECURSIVE SortByPricePP(_)
SortByPricePP(fl) ==
    IF fl = <<>> THEN <<>>
    ELSE InsertSorted(SortByPricePP(SubSeq(fl, 1, Len(fl) - 1)), fl[Len(fl)])

\* results[:10]
FirstTen(fl) == SubSeq(fl, 1, Min(10, Len(fl)))

\* lines 490-519: sample the dates; return if there are none, else plan the run
MainPlan ==
    /\ pc = "gen_ret"
    /\ IF pairs = <<>>
       THEN /\ pc' = "done"
            /\ UNCHANGED <<unique_returns, ret_keys>>
       ELSE LET keys == ReturnKeys(pairs, config.origins, 1, <<>>)
            IN  /\ ret_keys' = keys
                /\ unique_returns' = [k \in {keys[j] : j \in 1..Len(keys)} |-> None]
                /\ pc' = IF Len(config.origins) = 0 THEN "merge" ELSE "phase1"
    /\ UNCHANGED <<config, samplerVars, all_flights, search_count, ret_count, errors,
                   calls, kept, deduped, unique_flights, history, notified, events,
                   last_search, normVars, fetchVars>>


\* a ScrapedFlight
Listing(airline, duration, stops, price) ==
    [airline |-> airline, departure |-> "10:00", arrival |-> "21:30",
     duration |-> duration, stops |-> stops, price |-> price]

\* what search_flights can do in one outbound search: raise, or return a result
OutboundOutcomes ==
    {[kind |-> "raise"],
     [kind |-> "ok", result |-> [flights |-> <<>>]],
     [kind |-> "ok", result |-> [flights |->
        <<Listing("Emirates", "12 hr", <<"1", " ", "s", "t", "o", "p">>, <<"€", "9", "0", "0">>),
          Listing("ITA", "9 hr", <<"N", "o", "n", "s", "t", "o", "p">>, <<"€", "1", ",", "2", "0", "0">>)>>]],
     [kind |-> "ok", result |-> [flights |->
        <<Listing("ITA", "9 hr", <<>>, <<"€", "1", ",", "2", "0", "0">>),
          Listing("Qatar", "20 hr", <<"3", " ", "s", "t", "o", "p", "s">>, <<"€", "5", "5", "5">>),
          Listing("ITA", "10 hr", <<"N", "o", "n", "s", "t", "o", "p">>, <<"€", "1", ".", "2", "0", "0", ",", "0">>),
          Listing("Neos", "10 hr", <<"N", "o", "n", "s", "t", "o", "p">>, <<"€", ".">>)>>]]}

\* what search_flights can do in one return search
ReturnOutcomes ==
    {[kind |-> "raise"],
     [kind |-> "ok", result |-> [flights |-> <<>>]],
     [kind |-> "ok", result |-> [flights |->
        <<Listing("Qatar", "20 hr", <<"3", " ", "s", "t", "o", "p", "s">>, <<"€", "3", "0", "0">>)>>]],
     [kind |-> "ok", result |-> [flights |->
        <<Listing("Qatar", "20 hr", <<"3", " ", "s", "t", "o", "p", "s">>, <<"€", "3", "0", "0">>),
          Listing("Emirates", "11 hr", <<"1", " ", "s", "t", "o", "p">>, <<"€", ".">>),
          Listing("ITA", "9 hr", <<>>, <<"€", "4", "0", "0">>)>>]]}

\* lines 521-545: one iteration of the phase-1 loops
Phase1Search ==
    /\ pc = "phase1"
    /\ \E out \in OutboundOutcomes :
         LET k      == search_count + 1
             origin == config.origins[((k - 1) \div Len(pairs)) + 1]
             pair   == pairs[((k - 1) % Len(pairs)) + 1]
             r      == run_search(out)
             query  == <<"round-trip", pair[1], pair[2], origin>>
         IN  /\ search_count' = k
             /\ calls' = calls + 1
             /\ last_search' = [phase |-> 1, query |-> query, out |-> out]
             /\ events' = events \o <<SearchEvent(1, query)>>
                              \o (IF ~r.raised /\ SleepAfterOutbound(k)
                                  THEN <<SleepEvent>> ELSE <<>>)
             /\ IF r.raised
                THEN /\ pc' = "crashed"
                     /\ UNCHANGED <<all_flights, kept, errors>>
                ELSE /\ \E flights \in
                            (IF r.value # None /\ r.value.flights # <<>>
                             THEN process_results(r.value, origin, pair[1], pair[2], pair[3], config)
                             ELSE {<<>>}) :
                          /\ all_flights' = all_flights \o flights
                          /\ kept' = kept \o flights
                     /\ errors' = IF r.value = None THEN errors + 1 ELSE errors
                     /\ pc' = IF k = outbound_searches THEN "phase2" ELSE "phase1"
    /\ UNCHANGED <<config, samplerVars, unique_returns, ret_keys, ret_count, deduped,
                   unique_flights, history, notified, normVars, fetchVars>>

\* lines 550-563: one iteration of the phase-2 loop
Phase2Search ==
    /\ pc = "phase2"
    /\ \E out \in ReturnOutcomes :
         LET n   == ret_count + 1
             key == ret_keys[n]
             r   == run_search(out)
             query == <<"one-way", key[1], key[2]>>
         IN  /\ ret_count' = n
             /\ calls' = calls + 1
             /\ last_search' = [phase |-> 2, query |-> query, out |-> out]
             /\ events' = events \o <<SearchEvent(2, query)>>
                              \o (IF ~r.raised /\ SleepAfterReturn(n)
                                  THEN <<SleepEvent>> ELSE <<>>)
             /\ IF r.raised
                THEN /\ pc' = "crashed"
                     /\ UNCHANGED unique_returns
                ELSE LET ret_info == search_return_flights(r, config)
                     IN  /\ unique_returns' =
                               IF ret_info # None
                               THEN [unique_returns EXCEPT ![key] = ret_info]
                               ELSE unique_returns
                         /\ pc' = IF n = return_searches THEN "merge" ELSE "phase2"
    /\ UNCHANGED <<config, samplerVars, ret_keys, all_flights, search_count, errors, kept,
                   deduped, unique_flights, history, notified, normVars, fetchVars>>

\* lines 565-649: merge, remove duplicates, sort, write the history, notify
Finish ==
    /\ pc = "merge"
    /\ LET merged == Merge(all_flights, unique_returns)
           unique == Dedup(merged, 1, {})
           sorted == SortByPricePP(unique)
           good_deals == SelectSeq(sorted,
                            LAMBDA f : DecLeq(f.price_pp, config.price_threshold_pp))
       IN  /\ all_flights' = merged
           /\ deduped' = unique
           /\ unique_flights' = sorted
           /\ IF sorted = <<>>
              THEN UNCHANGED <<history, notified>>
              ELSE /\ history' = history \o FirstTen(sorted)
                   /\ IF good_deals # <<>>
                      THEN notified' = TRUE
                      ELSE \E heartbeat \in BOOLEAN : notified' = heartbeat
    /\ pc' = "done"
    /\ last_search' = None
    /\ UNCHANGED <<config, samplerVars, unique_returns, ret_keys, search_count, ret_count,
                   errors, calls, kept, events, normVars, fetchVars>>


-----------------------------------------------------------------------------
(* Configurations.                                                         *)

MaxStep == 5          \* sample_every_n_days ranges over 1..MaxStep
MaxNights == 5        \* nights_min, nights_max range over 1..MaxNights

\* values of date.today(): 2026-11-02, and 2027-04-05 (330 days before 2028-02-29)
TodaySet == {739922, 740076}

\* requested windows as (date_from - today, date_to - today)
SamplerWindows == {<<1, 10>>, <<400, 450>>, <<325, 335>>, <<-3, 2>>, <<5, 3>>, <<328, 329>>}

Cfg(today, w, nmin, nmax, step, origins, adults, max_stops) ==
    [today |-> today,
     date_from |-> StrfIso(today + w[1]),
     date_to |-> StrfIso(today + w[2]),
     nights_min |-> nmin,
     nights_max |-> nmax,
     step |-> step,
     origins |-> origins,
     adults |-> adults,
     max_stops |-> max_stops,
     destination |-> "MLE",
     price_threshold_pp |-> Dec(500, 0)]

SamplerConfigs ==
    {Cfg(t, w, a, b, s, <<"MXP">>, 2, 1) :
        t \in TodaySet, w \in SamplerWindows,
        a \in 1..MaxNights, b \in 1..MaxNights, s \in 1..MaxStep}

IdleMain ==
    /\ unique_returns = <<>>
    /\ ret_keys = <<>>
    /\ all_flights = <<>>
    /\ search_count = 0
    /\ ret_count = 0
    /\ errors = 0
    /\ calls = 0
    /\ kept = <<>>
    /\ deduped = <<>>
    /\ unique_flights = <<>>
    /\ history = <<>>
    /\ notified = FALSE
    /\ events = <<>>
    /\ last_search = None

IdleNorm ==
    /\ n_in = None
    /\ n_out = None

IdleFetch ==
    /\ f_pc = "idle"
    /\ browser = "none"
    /\ f_exc = FALSE
    /\ dom = None
    /\ selector_found = FALSE
    /\ flights_data = <<>>
    /\ fallback_ran = FALSE
    /\ f_result = None
    /\ fetches = 0
    /\ leaked = 0

InitSampler ==
    /\ config \in SamplerConfigs
    /\ pc = "gen"
    /\ current = 0
    /\ pairs = <<>>
    /\ IdleMain
    /\ IdleNorm
    /\ IdleFetch

NextSampler == GenEnter \/ GenLoop \/ GenReturn

SpecSampler == InitSampler /\ [][NextSampler]_vars

\* every integer is admitted for sample_every_n_days, nights_min and nights_max
WalkSteps == {-2, -1, 0, 1, 2}
WalkNights == {-1, 0, 1, 400}
WalkWindows == {<<1, 4>>, <<328, 332>>, <<400, 450>>, <<5, 3>>}

WalkConfigs ==
    {Cfg(t, w, a, b, s, <<"MXP">>, 2, 1) :
        t \in TodaySet, w \in WalkWindows, a \in WalkNights, b \in WalkNights,
        s \in WalkSteps}

InitWalk ==
    /\ config \in WalkConfigs
    /\ pc = "gen"
    /\ current = 0
    /\ pairs = <<>>
    /\ IdleMain
    /\ IdleNorm
    /\ IdleFetch

NextWalk == GenEnter \/ GenLoop \/ GenReturn

SpecWalk == InitWalk /\ [][NextWalk]_vars

-----------------------------------------------------------------------------
(* The normalizers on their own: one listing list, one call.               *)

MaxPriceLen == 4      \* price labels: every text of up to MaxPriceLen characters
MaxAdults == 4        \* adults ranges over 1..MaxAdults
MaxStopsCfg == 2      \* max_stops ranges over 0..MaxStopsCfg

PriceAlphabet == {"€", "1", "5", ",", "."}

PriceSamples ==
    {<<"€", "1", ".", "2", "3", "4">>,
     <<"€", "1", ",", "2", "3", "4">>,
     <<"€", "1", ",", "2", "3", "4", ".", "5", "6">>,
     <<"€", "1", ".", "2", "3", "4", ",", "5", "6">>,
     <<>>,
     <<"N", "/", "A">>,
     <<"€", "1", ".", "2", "0", "0">>,
     <<"€", "9", "0", "0">>,
     <<"$", "1", ",", "2", "3", "4", ",", "5", "6", "7">>}

PriceInputs ==
    PriceSamples \cup UNION {[1..k -> PriceAlphabet] : k \in 0..MaxPriceLen}

StopsInputs ==
    {<<>>,
     <<"N", "o", "n", "s", "t", "o", "p">>,
     <<"1", " ", "s", "t", "o", "p">>,
     <<"2", " ", "s", "t", "o", "p", "s">>,
     <<"3", " ", "S", "T", "O", "P", "S">>,
     <<"1", "2", " ", "s", "t", "o", "p", "s">>,
     <<"D", "i", "r", "e", "t", "t", "o">>,
     <<"n", "o", "n", "s", "t", "o", "p", " ", "2">>,
     <<"-", "1", " ", "s", "t", "o", "p">>,
     <<"s", "t", "o", "p">>}

\* listings that differ in what process_results filters on
NormPool ==
    {Listing("Emirates", "12 hr", <<"1", " ", "s", "t", "o", "p">>, <<"€", "9", "0", "0">>),
     Listing("ITA", "9 hr", <<>>, <<"€", "1", ",", "2", "0", "0">>),
     Listing("Qatar", "20 hr", <<"3", " ", "s", "t", "o", "p", "s">>, <<"€", "5", "5", "5">>),
     Listing("Neos", "10 hr", <<"N", "o", "n", "s", "t", "o", "p">>, <<"N", "/", "A">>)}

NormResults ==
    {None, [flights |-> <<>>]}
    \cup {[flights |-> <<Listing("Emirates", "12 hr", <<"1", " ", "s", "t", "o", "p">>, p)>>] :
            p \in PriceInputs}
    \cup {[flights |-> <<Listing("Emirates", "12 hr", st, <<"€", "1", ",", "2", "0", "0">>)>>] :
            st \in StopsInputs}
    \cup {[flights |-> <<a, b>>] : a \in NormPool, b \in NormPool}

NormConfigs ==
    {Cfg(739922, <<1, 8>>, 7, 7, 5, <<"MXP">>, a, m) :
        a \in 1..MaxAdults, m \in 0..MaxStopsCfg}

InitNormalizer ==
    /\ config \in NormConfigs
    /\ pc = "norm"
    /\ current = 0
    /\ pairs = <<>>
    /\ IdleMain
    /\ IdleFetch
    /\ n_in \in NormResults
    /\ n_out = None

Applicable == pc = "norm" /\ n_out = None

\* parse_price on the price label of the first listing
ParsePrice ==
    /\ Applicable
    /\ n_in # None /\ n_in.flights # <<>>
    /\ n_out' = [fn |-> "parse_price", value |-> parse_price(n_in.flights[1].price)]
    /\ UNCHANGED <<config, pc, samplerVars, mainVars, n_in, fetchVars>>

\* parse_stops on the stops label of the first listing
ParseStops ==
    /\ Applicable
    /\ n_in # None /\ n_in.flights # <<>>
    /\ n_out' = [fn |-> "parse_stops", value |-> parse_stops(n_in.flights[1].stops)]
    /\ UNCHANGED <<config, pc, samplerVars, mainVars, n_in, fetchVars>>

\* process_results on the whole result
ProcessResults ==
    /\ Applicable
    /\ \E flights \in process_results(n_in, "MXP", config.date_from, config.date_to, 7, config) :
          n_out' = [fn |-> "process_results", value |-> flights]
    /\ UNCHANGED <<config, pc, samplerVars, mainVars, n_in, fetchVars>>

NextNormalizer == ParsePrice \/ ParseStops \/ ProcessResults

SpecNormalizer == InitNormalizer /\ [][NextNormalizer]_vars


-----------------------------------------------------------------------------
(* The monitoring run.                                                     *)

RunWindows == {<<1, 1>>, <<329, 331>>, <<400, 450>>, <<3, 2>>}
RunNights == {<<1, 1>>, <<1, 2>>}
RunSteps == {1, 5}
RunOrigins == {<<>>, <<"MXP">>, <<"MXP", "LIN">>, <<"MXP", "MXP">>}

RunConfigs ==
    {Cfg(740076, w, n[1], n[2], s, o, 2, 1) :
        w \in RunWindows, n \in RunNights, s \in RunSteps, o \in RunOrigins}

Init ==
    /\ config \in RunConfigs
    /\ pc = "gen"
    /\ current = 0
    /\ pairs = <<>>
    /\ IdleMain
    /\ IdleNorm
    /\ IdleFetch

Next ==
    \/ GenEnter
    \/ GenLoop
    \/ GenReturn
    \/ MainPlan
    \/ Phase1Search
    \/ Phase2Search
    \/ Finish

Spec == Init /\ [][Next]_vars

-----------------------------------------------------------------------------
(* scraper.py: _fetch_flights.  The page is a record: the li items under    *)
(* ul.Rk10dc, whether an element with role="main" exists, and the li items  *)
(* under its jsname containers.  An item has its innerText and the          *)
(* innerText of its span and div descendants.                               *)

IsCurrency(ch) == ch \in {"€", "$", "£"}
IsPriceChar(ch) == IsDigit(ch) \/ ch = "," \/ ch = "."
IsSpace(ch) == ch \in {" ", "\n", "\t"}

\* the longest run of [\d,.] from position i
RECURSIVE PriceRun(_, _)
PriceRun(t, i) ==
    IF i > Len(t) \/ ~IsPriceChar(t[i]) THEN <<>>
    ELSE <<t[i]>> \o PriceRun(t, i + 1)

\* lines 125-126, 179: allText.match(/[€$£][\d,.]+/), "" for no match
PriceMatch(t) ==
    LET starts == {i \in 1..(Len(t) - 1) : IsCurrency(t[i]) /\ IsPriceChar(t[i + 1])}
    IN  IF starts = {} THEN <<>>
        ELSE LET i == CHOOSE k \in starts : \A m \in starts : k <= m
             IN  <<t[i]>> \o PriceRun(t, i + 1)

\* String.prototype.trim
RECURSIVE Trim(_)
Trim(t) ==
    IF t = <<>> THEN t
    ELSE IF IsSpace(t[1]) THEN Trim(Tail(t))
    ELSE IF IsSpace(t[Len(t)]) THEN Trim(SubSeq(t, 1, Len(t) - 1))
    ELSE t

\* lines 131-136, 183-187: the trimmed, non-empty texts shorter than 100
Texts(item) ==
    SelectSeq([i \in 1..Len(item.texts) |-> Trim(item.texts[i])],
              LAMBDA t : t # <<>> /\ Len(t) < 100)

\* lines 139, 182: timePattern.test(t)
TimePattern(t) ==
    \E i \in 1..(Len(t) - 3) :
        IsDigit(t[i]) /\ t[i + 1] = ":" /\ IsDigit(t[i + 2]) /\ IsDigit(t[i + 3])

\* lines 140, 188
Times(texts) == SelectSeq(texts, LAMBDA t : TimePattern(t) /\ Len(t) < 20)

\* the lower-cased text has sub at position i
HasAt(t, i, sub) ==
    /\ i + Len(sub) - 1 <= Len(t)
    /\ \A j \in 1..Len(sub) : Lower(t)[i + j - 1] = sub[j]

\* lines 143, 189: durPattern.test(t); what follows (hr|h|ore) in the pattern
\* of line 143 matches the empty text
DurPattern(t) ==
    \E i \in 1..Len(t) : \E j \in (i + 1)..Len(t) :
        /\ IsDigit(t[i])
        /\ \A k \in (i + 1)..(j - 1) : IsSpace(t[k])
        /\ HasAt(t, j, <<"h">>) \/ HasAt(t, j, <<"o", "r", "e">>)

\* line 147: stopsPattern.test(t)
StopsPattern(t) ==
    \/ Contains(Lower(t), <<"n", "o", "n", "s", "t", "o", "p">>)
    \/ \E i \in 1..Len(t) : IsDigit(t[i]) /\ HasAt(t, i + 1, <<" ", "s", "t", "o", "p">>)

\* line 196: /(nonstop|stop)/i.test(t)
StopsPatternFallback(t) == Contains(Lower(t), <<"s", "t", "o", "p">>)

\* texts.find(...) || '', given the texts that pass the test, in order
Find(passing) == IF passing = <<>> THEN <<>> ELSE Head(passing)

\* times[k] || ''
At(times, k) == IF k <= Len(times) THEN times[k] ELSE <<>>

\* lines 151-159
IsAirline(t) ==
    /\ Len(t) > 2 /\ Len(t) < 50
    /\ ~TimePattern(t)
    /\ ~DurPattern(t)
    /\ ~StopsPattern(t)
    /\ ~\E i \in 1..Len(t) : IsCurrency(t[i])
    /\ ~Contains(Lower(t), <<"k", "g">>)
    /\ ~Contains(Lower(t), <<"c", "o", "2">>)
    /\ ~Contains(Lower(t), <<"e", "m", "i", "s", "s", "i", "o", "n", "s">>)
    /\ ~Contains(Lower(t), <<"r", "o", "u", "n", "d", " ", "t", "r", "i", "p">>)
    /\ ~Contains(Lower(t), <<"a", "n", "d", "a", "t", "a">>)

\* line 192
IsAirlineFallback(t) ==
    /\ Len(t) > 2 /\ Len(t) < 50
    /\ ~TimePattern(t)
    /\ ~\E i \in 1..Len(t) : IsCurrency(t[i])

\* lines 161-168
ScrapedFlight(airline, departure, arrival, duration, stops, price) ==
    [airline |-> airline, departure |-> departure, arrival |-> arrival,
     duration |-> duration, stops |-> stops, price |-> price]

\* lines 119-169: the listings of the items of ul.Rk10dc from item i on
RECURSIVE ExtractPrimary(_, _)
ExtractPrimary(items, i) ==
    IF i > Len(items) THEN <<>>
    ELSE LET item  == items[i]
             price == PriceMatch(item.text)
             texts == Texts(item)
             times == Times(texts)
         IN  IF Len(item.text) < 10 \/ price = <<>>
             THEN ExtractPrimary(items, i + 1)
             ELSE <<ScrapedFlight(Find(SelectSeq(texts, IsAirline)), At(times, 1), At(times, 2),
                                  Find(SelectSeq(texts, DurPattern)), Find(SelectSeq(texts, StopsPattern)),
                                  price)>>
                  \o ExtractPrimary(items, i + 1)

\* lines 177-199: the listings of the items under role="main" from item i on
RECURSIVE ExtractFallback(_, _)
ExtractFallback(items, i) ==
    IF i > Len(items) THEN <<>>
    ELSE LET item  == items[i]
             price == PriceMatch(item.text)
             texts == Texts(item)
             times == Times(texts)
         IN  IF price = <<>>
             THEN ExtractFallback(items, i + 1)
             ELSE <<ScrapedFlight(Find(SelectSeq(texts, IsAirlineFallback)), At(times, 1), At(times, 2),
                                  Find(SelectSeq(texts, DurPattern)),
                                  Find(SelectSeq(texts, StopsPatternFallback)), price)>>
                  \o ExtractFallback(items, i + 1)

\* lines 113-204: what the page function returns, and whether it entered the
\* block of line 173
Evaluate(d) ==
    LET flights == ExtractPrimary(d.primary, 1)
    IN  IF Len(flights) = 0
        THEN [flights |-> IF d.main THEN ExtractFallback(d.secondary, 1) ELSE <<>>,
              fallback |-> TRUE]
        ELSE [flights |-> flights, fallback |-> FALSE]

\* a list item with every label, the duration padded with blanks
ItemFull ==
    [text |-> <<"I", "T", "A", " ", "A", "i", "r", "w", "a", "y", "s", " ", "1", "0", ":", "0", "0", " ", "2", "1", ":", "3", "0", " ", "9", " ", "h", "r", " ", "3", "0", " ", "m", "i", "n", " ", "N", "o", "n", "s", "t", "o", "p", " ", "€", "1", ",", "2", "3", "4">>,
     texts |-> <<<<"I", "T", "A", " ", "A", "i", "r", "w", "a", "y", "s">>,
                 <<"1", "0", ":", "0", "0">>,
                 <<"2", "1", ":", "3", "0">>,
                 <<" ", "9", " ", "h", "r", " ", "3", "0", " ", "m", "i", "n", " ">>,
                 <<"N", "o", "n", "s", "t", "o", "p">>,
                 <<"€", "1", ",", "2", "3", "4">>>>]

\* a list item whose whole text is a short price
ItemShort ==
    [text |-> <<"€", "1", "2">>,
     texts |-> <<<<"€", "1", "2">>>>]

\* a list item whose currency symbol is followed by punctuation only
ItemNoDigits ==
    [text |-> <<"P", "r", "i", "c", "e", " ", "o", "n", " ", "r", "e", "q", "u", "e", "s", "t", " ", "€", ".", "-">>,
     texts |-> <<<<" ", "P", "r", "i", "c", "e", " ", "o", "n", " ", "r", "e", "q", "u", "e", "s", "t", " ">>,
                 <<"€", ".", "-">>>>]

\* a list item without currency symbol
ItemNoPrice ==
    [text |-> <<"S", "p", "o", "n", "s", "o", "r", "e", "d", " ", "h", "o", "t", "e", "l", " ", "d", "e", "a", "l">>,
     texts |-> <<<<"S", "p", "o", "n", "s", "o", "r", "e", "d">>>>]

\* a priced list item without span or div texts
ItemBare ==
    [text |-> <<"B", "e", "s", "t", " ", "o", "f", "f", "e", "r", " ", "$", "9", "5", "0", " ", "t", "o", "d", "a", "y">>,
     texts |-> <<>>]

\* a priced list item with emission and trip-type texts before the airline
ItemNoisy ==
    [text |-> <<"1", "2", "0", " ", "k", "g", " ", "C", "O", "2", " ", "r", "o", "u", "n", "d", " ", "t", "r", "i", "p", " ", "E", "m", "i", "r", "a", "t", "e", "s", " ", "8", ":", "0", "5", " ", "P", "M", " ", "1", " ", "s", "t", "o", "p", " ", "1", "2", "h", " ", "£", "9", "0", "0">>,
     texts |-> <<<<"1", "2", "0", " ", "k", "g", " ", "C", "O", "2">>,
                 <<"r", "o", "u", "n", "d", " ", "t", "r", "i", "p">>,
                 <<"E", "m", "i", "r", "a", "t", "e", "s">>,
                 <<"8", ":", "0", "5", " ", "P", "M">>,
                 <<"1", " ", "s", "t", "o", "p">>,
                 <<"1", "2", "h">>,
                 <<"£", "9", "0", "0">>>>]

ItemPool == {ItemFull, ItemShort, ItemNoDigits, ItemNoPrice, ItemBare, ItemNoisy}

\* the item lists of a page: none, one item or two items
ItemLists == {<<>>} \cup {<<a>> : a \in ItemPool} \cup {<<a, b>> : a \in ItemPool, b \in ItemPool}

\* the pages a search can load
DomSamples ==
    {[primary |-> p, main |-> m, secondary |-> s] :
        p \in ItemLists, m \in BOOLEAN,
        s \in {<<>>} \cup {<<a>> : a \in ItemPool}}

MaxFetches == 2       \* the searches followed one after the other

\* line 53: async with async_playwright() as p
FetchStart ==
    /\ f_pc \in {"idle", "returned", "raised"}
    /\ fetches < MaxFetches
    /\ fetches' = fetches + 1
    /\ leaked' = IF browser = "open" THEN leaked + 1 ELSE leaked
    /\ browser' = "none"
    /\ f_exc' = FALSE
    /\ dom' = None
    /\ selector_found' = FALSE
    /\ flights_data' = <<>>
    /\ fallback_ran' = FALSE
    /\ f_result' = None
    /\ \E ok \in BOOLEAN : f_pc' = IF ok THEN "launch" ELSE "raised"
    /\ UNCHANGED <<config, pc, samplerVars, mainVars, normVars>>

\* a step that raises outside the try block leaves through the async with
\* only; one that raises inside it goes to the finally clause
Raise(to) ==
    /\ f_exc' = TRUE
    /\ f_pc' = to

\* line 54
Launch ==
    /\ f_pc = "launch"
    /\ \E ok \in BOOLEAN :
          IF ok THEN /\ browser' = "open"
                     /\ f_pc' = "new_context"
                     /\ UNCHANGED f_exc
          ELSE /\ Raise("stop")
               /\ UNCHANGED browser
    /\ UNCHANGED <<config, pc, samplerVars, mainVars, normVars, dom, selector_found, flights_data,
                   fallback_ran, f_result, fetches, leaked>>

\* lines 55-58
NewContext ==
    /\ f_pc = "new_context"
    /\ \E ok \in BOOLEAN :
          IF ok THEN f_pc' = "new_page" /\ UNCHANGED f_exc
          ELSE Raise("stop")
    /\ UNCHANGED <<config, pc, samplerVars, mainVars, normVars, browser, dom, selector_found,
                   flights_data, fallback_ran, f_result, fetches, leaked>>

\* line 59
NewPage ==
    /\ f_pc = "new_page"
    /\ \E ok \in BOOLEAN :
          IF ok THEN f_pc' = "goto" /\ UNCHANGED f_exc
          ELSE Raise("stop")
    /\ UNCHANGED <<config, pc, samplerVars, mainVars, normVars, browser, dom, selector_found,
                   flights_data, fallback_ran, f_result, fetches, leaked>>

\* lines 61-62: the try block is entered and the page is loaded
Goto ==
    /\ f_pc = "goto"
    /\ \/ /\ dom' \in DomSamples
          /\ f_pc' = "consent"
          /\ UNCHANGED f_exc
       \/ /\ Raise("finally")
          /\ UNCHANGED dom
    /\ UNCHANGED <<config, pc, samplerVars, mainVars, normVars, browser, selector_found,
                   flights_data, fallback_ran, f_result, fetches, leaked>>

\* lines 65-77: the consent redirect; what raises in it is swallowed
Consent ==
    /\ f_pc = "consent"
    /\ f_pc' = "overlay"
    /\ UNCHANGED <<config, pc, samplerVars, mainVars, normVars, browser, f_exc, dom, selector_found,
                   flights_data, fallback_ran, f_result, fetches, leaked>>

\* lines 80-89: the wait of line 80 can raise, the clicks cannot
Overlay ==
    /\ f_pc = "overlay"
    /\ \E ok \in BOOLEAN :
          IF ok THEN f_pc' = "selectors" /\ UNCHANGED f_exc
          ELSE Raise("finally")
    /\ UNCHANGED <<config, pc, samplerVars, mainVars, normVars, browser, dom, selector_found,
                   flights_data, fallback_ran, f_result, fetches, leaked>>

\* lines 92-105: a selector is found, or every wait times out
Selectors ==
    /\ f_pc = "selectors"
    /\ \E f \in BOOLEAN :
          /\ selector_found' = f
          /\ f_pc' = IF f THEN "evaluate" ELSE "networkidle"
    /\ UNCHANGED <<config, pc, samplerVars, mainVars, normVars, browser, f_exc, dom,
                   flights_data, fallback_ran, f_result, fetches, leaked>>

\* lines 107-110
NetworkIdle ==
    /\ f_pc = "networkidle"
    /\ \E ok \in BOOLEAN :
          IF ok THEN f_pc' = "evaluate" /\ UNCHANGED f_exc
          ELSE Raise("finally")
    /\ UNCHANGED <<config, pc, samplerVars, mainVars, normVars, browser, dom, selector_found,
                   flights_data, fallback_ran, f_result, fetches, leaked>>

\* lines 113-204
EvaluateFlights ==
    /\ f_pc = "evaluate"
    /\ \/ /\ flights_data' = Evaluate(dom).flights
          /\ fallback_ran' = Evaluate(dom).fallback
          /\ f_pc' = "raw_html"
          /\ UNCHANGED f_exc
       \/ /\ Raise("finally")
          /\ UNCHANGED <<flights_data, fallback_ran>>
    /\ UNCHANGED <<config, pc, samplerVars, mainVars, normVars, browser, dom, selector_found,
                   f_result, fetches, leaked>>

\* lines 206-208
RawHtml ==
    /\ f_pc = "raw_html"
    /\ \E ok \in BOOLEAN :
          IF ok THEN f_pc' = "finally" /\ UNCHANGED f_exc
          ELSE Raise("finally")
    /\ UNCHANGED <<config, pc, samplerVars, mainVars, normVars, browser, dom, selector_found,
                   flights_data, fallback_ran, f_result, fetches, leaked>>

\* lines 210-211
Finally ==
    /\ f_pc = "finally"
    /\ browser' = "closed"
    /\ f_pc' = "stop"
    /\ UNCHANGED <<config, pc, samplerVars, mainVars, normVars, f_exc, dom, selector_found,
                   flights_data, fallback_ran, f_result, fetches, leaked>>

\* line 53: the async with block is left; this code does nothing to a browser
\* that is still open, and what the library's shutdown does to it is not in
\* this code's hands
PlaywrightStop ==
    /\ f_pc = "stop"
    /\ browser' \in (IF browser = "open" THEN {"open", "closed"} ELSE {browser})
    /\ f_pc' = IF f_exc THEN "raised" ELSE "build"
    /\ UNCHANGED <<config, pc, samplerVars, mainVars, normVars, f_exc, dom, selector_found,
                   flights_data, fallback_ran, f_result, fetches, leaked>>

\* lines 213-214
BuildResult ==
    /\ f_pc = "build"
    /\ f_result' = [flights |-> flights_data]
    /\ f_pc' = "returned"
    /\ UNCHANGED <<config, pc, samplerVars, mainVars, normVars, browser, f_exc, dom, selector_found,
                   flights_data, fallback_ran, fetches, leaked>>

InitFetch ==
    /\ config \in {Cfg(740076, <<1, 1>>, 1, 1, 1, <<"MXP">>, 2, 1)}
    /\ pc = "fetch"
    /\ current = 0
    /\ pairs = <<>>
    /\ IdleMain
    /\ IdleNorm
    /\ IdleFetch

NextFetch ==
    \/ FetchStart
    \/ Launch
    \/ NewContext
    \/ NewPage
    \/ Goto
    \/ Consent
    \/ Overlay
    \/ Selectors
    \/ NetworkIdle
    \/ EvaluateFlights
    \/ RawHtml
    \/ Finally
    \/ PlaywrightStop
    \/ BuildResult

SpecFetch == InitFetch /\ [][NextFetch]_vars


-----------------------------------------------------------------------------
(* Claims about generate_date_pairs.                                       *)

\* C1: every pair generate_date_pairs holds or returns has its return date
\* no later than today + 330 days, and its return date is its departure date
\* plus its nights.
C1_ReturnWithinHorizon ==
    \A i \in 1..Len(pairs) :
        /\ StrpIso(pairs[i][2]) <= config.today + 330
        /\ StrpIso(pairs[i][2]) = StrpIso(pairs[i][1]) + pairs[i][3]

\* generate_date_pairs has returned pairs, one of them ending on the horizon
\* day, for a window that reaches the horizon (later returns were cut off)
C1_Witness ==
    /\ pc = "gen_ret"
    /\ StrpIso(config.date_to) > max_date(config)
    /\ \E i \in 1..Len(pairs) : StrpIso(pairs[i][2]) = max_date(config)
    /\ \E i \in 1..Len(pairs) : pairs[i][3] > 1

\* the nights candidate set of the claim, in the order (min, mid, max), each
\* distinct value once
ClaimedNights(c) ==
    IF c.nights_min = c.nights_max THEN <<c.nights_min>>
    ELSE IF c.nights_max - c.nights_min > 2
    THEN <<c.nights_min, (c.nights_min + c.nights_max) \div 2, c.nights_max>>
    ELSE <<c.nights_min, c.nights_max>>

RECURSIVE ClaimedAt(_, _, _, _)
ClaimedAt(c, d, ns, i) ==
    IF i > Len(ns) THEN <<>>
    ELSE (IF d + ns[i] <= c.today + 330
          THEN << <<StrfIso(d), StrfIso(d + ns[i]), ns[i]>> >>
          ELSE <<>>) \o ClaimedAt(c, d, ns, i + 1)

\* the sequence the claim describes, for the departures d, d + step, ... <= clipped end
RECURSIVE ClaimedFrom(_, _)
ClaimedFrom(c, d) ==
    IF d > effective_end(c) \/ c.step < 1 THEN <<>>
    ELSE ClaimedAt(c, d, ClaimedNights(c), 1) \o ClaimedFrom(c, d + c.step)

NoPairTwice(ps) == \A i, j \in 1..Len(ps) : ps[i] = ps[j] => i = j

\* C8: generate_date_pairs returns exactly the pairs (d, d+n, n), d walking
\* from the clipped start to the clipped end by the step, n over the distinct
\* nights candidates in the order (min, mid, max), cut at the horizon; no pair
\* occurs twice in the returned sequence.
C8_ExactSequence ==
    pc = "gen_ret" =>
        /\ pairs = ClaimedFrom(config, effective_start(config))
        /\ NoPairTwice(pairs)

-----------------------------------------------------------------------------
(* Claims about the normalizers.                                           *)

Called(fn) == n_out # None /\ n_out.fn = fn

\* C2: parse_price maps "€1.234", "€1,234", "€1,234.56" and "€1.234,56" to
\* 1234, 1234, 1234.56 and 1234.56, and maps "" and "N/A" to None.
C2_ParsePriceExamples ==
    Called("parse_price") =>
        LET p == n_in.flights[1].price
            v == n_out.value
        IN  /\ p = <<"€", "1", ".", "2", "3", "4">> => v = Dec(1234, 0)
            /\ p = <<"€", "1", ",", "2", "3", "4">> => v = Dec(1234, 0)
            /\ p = <<"€", "1", ",", "2", "3", "4", ".", "5", "6">> => v = Dec(123456, 2)
            /\ p = <<"€", "1", ".", "2", "3", "4", ",", "5", "6">> => v = Dec(123456, 2)
            /\ p = <<>> => v = None
            /\ p = <<"N", "/", "A">> => v = None

Abs(x) == IF x < 0 THEN 0 - x ELSE x

\* x is price_total / adults rounded to 2 decimals: x has at most two
\* decimals and lies within half a hundredth of the quotient
IsRounded2(x, price_total, adults) ==
    /\ x.scale <= 2
    /\ LET cents == x.num * Pow10(2 - x.scale)
           den   == Pow10(price_total.scale) * adults
       IN  2 * Abs(cents * den - 100 * price_total.num) <= den

\* C9: every offer built by process_results has price_pp equal to
\* price_total / adults rounded to 2 decimals.
C9_PricePerPerson ==
    Called("process_results") =>
        \A i \in 1..Len(n_out.value) :
            IsRounded2(n_out.value[i].price_pp, n_out.value[i].price_total, config.adults)

\* process_results built an offer whose per-person price is not the exact
\* quotient (the rounding changed the value), for more than one adult
C9_Witness ==
    /\ Called("process_results")
    /\ config.adults > 1
    /\ \E i \in 1..Len(n_out.value) :
          LET o == n_out.value[i]
          IN  o.price_pp.num * Pow10(2 - o.price_pp.scale) * Pow10(o.price_total.scale)
                  * config.adults # 100 * o.price_total.num

\* the listings process_results keeps: price parseable, stops within max_stops
Admitted(fl, c) ==
    SelectSeq(fl, LAMBDA f : parse_price(f.price) # None
                             /\ parse_stops(f.stops) <= c.max_stops)

\* C10: every offer process_results builds has an integer stop count between
\* 0 and max_stops; the offers are exactly the listings with a parseable price
\* and a parsed stop count within max_stops, in order; a listing with an empty
\* stops label gets stops = 0.
C10_StopsWithinMax ==
    Called("process_results") =>
        LET fl  == IF n_in = None THEN <<>> ELSE n_in.flights
            adm == Admitted(fl, config)
            out == n_out.value
        IN  /\ Len(out) = Len(adm)
            /\ \A i \in 1..Len(out) :
                  /\ out[i].stops \in 0..config.max_stops
                  /\ out[i].airline = adm[i].airline
                  /\ out[i].price_total = parse_price(adm[i].price)
                  /\ adm[i].stops = <<>> => out[i].stops = 0

\* process_results dropped one listing of two and kept one whose stops label
\* is empty
C10_Witness ==
    /\ Called("process_results")
    /\ n_in # None
    /\ Len(n_in.flights) = 2
    /\ Len(n_out.value) = 1
    /\ n_out.value[1].stops_detail = Diretto
    /\ \E i \in 1..2 : n_in.flights[i].stops = <<>>
    /\ \E i \in 1..2 : parse_stops(n_in.flights[i].stops) > config.max_stops

-----------------------------------------------------------------------------
(* Claims about the run.                                                   *)

\* the deduplication key as the data model states it
ClaimKey(f) == <<f.price_total, f.dep_date, f.ret_date, f.dep_airport, f.airline>>

\* the index of the first offer of fl with the key of fl[i]
FirstWithKey(fl, i) ==
    CHOOSE j \in 1..i : /\ ClaimKey(fl[j]) = ClaimKey(fl[i])
                        /\ \A k \in 1..(j - 1) : ClaimKey(fl[k]) # ClaimKey(fl[i])

\* C3: after the deduplication step no two offers of the output share the key
\* (price_total, dep_date, ret_date, dep_airport, airline); for every key among
\* the accumulated offers exactly one offer is kept, the first with that key.
C3_Deduplicated ==
    pc = "done" =>
        /\ \A i, j \in 1..Len(deduped) :
              ClaimKey(deduped[i]) = ClaimKey(deduped[j]) => i = j
        /\ \A i, j \in 1..Len(unique_flights) :
              ClaimKey(unique_flights[i]) = ClaimKey(unique_flights[j]) => i = j
        /\ \A i \in 1..Len(all_flights) :
              \E j \in 1..Len(deduped) :
                 /\ ClaimKey(deduped[j]) = ClaimKey(all_flights[i])
                 /\ deduped[j] = all_flights[FirstWithKey(all_flights, i)]
        /\ \A j \in 1..Len(deduped) :
              \E i \in 1..Len(all_flights) : deduped[j] = all_flights[i]

\* the run removed a duplicate that differs from the kept offer in its
\* duration, and kept at least two offers
C3_Witness ==
    /\ pc = "done"
    /\ Len(deduped) >= 2
    /\ \E i, j \in 1..Len(all_flights) :
          /\ i < j
          /\ ClaimKey(all_flights[i]) = ClaimKey(all_flights[j])
          /\ all_flights[i].duration # all_flights[j].duration

\* a.price_pp <= b.price_pp, on the decimals
PPLeq(a, b) == a.price_pp.num * Pow10(b.price_pp.scale) <= b.price_pp.num * Pow10(a.price_pp.scale)

\* C4: the emitted list is ordered by price_pp ascending and is a permutation
\* of the deduplicated offers; the history gets the head of that list.
C4_SortedByPricePP ==
    pc = "done" =>
        /\ \A i \in 1..(Len(unique_flights) - 1) :
              PPLeq(unique_flights[i], unique_flights[i + 1])
        /\ Len(unique_flights) = Len(deduped)
        /\ \A x \in {deduped[i] : i \in 1..Len(deduped)} :
              Cardinality({i \in 1..Len(deduped) : deduped[i] = x})
                = Cardinality({i \in 1..Len(unique_flights) : unique_flights[i] = x})
        /\ \A i \in 1..Len(history) : history[i] = unique_flights[i]

\* the run emitted at least three offers and its deduplicated list was not
\* already in price order
C4_Witness ==
    /\ pc = "done"
    /\ Len(unique_flights) >= 3
    /\ \E i \in 1..(Len(deduped) - 1) : ~PPLeq(deduped[i], deduped[i + 1])
    /\ history # <<>>

\* return-leg detail is recorded for the return date and origin of offer f
HasReturnDetail(f) ==
    \E key \in DOMAIN unique_returns :
        /\ StrpIso(key[1]) = StrpDmy(f.ret_date)
        /\ key[2] = f.origin_code
        /\ unique_returns[key] # None

\* the merge kept every phase-1 offer, in order, with its fields untouched,
\* and gave the offers without return-leg detail the fallback with the given
\* duration marker
MergeKeepsAll(marker) ==
    pc = "done" /\ pairs # <<>> =>
        /\ Len(all_flights) = Len(kept)
        /\ \A i \in 1..Len(kept) :
              /\ \A k \in DOMAIN kept[i] : all_flights[i][k] = kept[i][k]
              /\ ~HasReturnDetail(kept[i]) =>
                    /\ all_flights[i].ret_airline = kept[i].airline
                    /\ all_flights[i].ret_duration = marker
              /\ \E j \in 1..Len(deduped) : ClaimKey(deduped[j]) = ClaimKey(kept[i])

\* C5 (as amended): in the merge step every phase-1 offer without recorded
\* return-leg detail gets ret_airline equal to its own airline and ret_duration
\* equal to "N/D", and no phase-1 offer is dropped by the merge.
C5_MergeFallback == MergeKeepsAll("N/D")

\* C5 (as claimed): the fallback marks ret_duration as "unknown".
C5_AsClaimed == MergeKeepsAll("unknown")

\* the merge handled an offer with recorded return detail and one without
C5_Witness ==
    /\ pc = "done"
    /\ \E i \in 1..Len(kept) : HasReturnDetail(kept[i])
    /\ \E i \in 1..Len(kept) :
          ~HasReturnDetail(kept[i]) /\ all_flights[i].ret_duration = "N/D"

\* C6: a failing search never aborts the run: the run never stops in a search,
\* and when it reaches the merge step every planned phase-1 and phase-2 search
\* has been attempted and the offers of the searches that succeeded are all
\* in all_flights.
C6_FailuresDoNotAbort ==
    /\ pc # "crashed"
    /\ pc = "merge" =>
          /\ search_count = outbound_searches
          /\ ret_count = return_searches
          /\ calls = outbound_searches + return_searches
          /\ all_flights = kept
    /\ pc = "phase2" => all_flights = kept /\ search_count = outbound_searches

\* the run reached the merge step after a failed phase-1 search, with offers
\* from another search, and with a return search that gave no detail
C6_Witness ==
    /\ pc = "merge"
    /\ errors >= 1
    /\ all_flights # <<>>
    /\ calls >= 4
    /\ \E key \in DOMAIN unique_returns : unique_returns[key] = None

\* the requested window, clipped to [tomorrow, today + 330 days], is inverted
WindowInverted ==
    Max(StrpIso(config.date_from), config.today + 1)
        > Min(StrpIso(config.date_to), config.today + 330)

\* C7: when the clipped window is inverted generate_date_pairs returns the
\* empty sequence and the run returns before any search: no Extractor call,
\* no history write, no notification.
C7_InvertedWindowReturnsEarly ==
    WindowInverted /\ pc \notin {"gen", "gen_loop"} =>
        /\ pairs = <<>>
        /\ pc \in {"gen_ret", "done"}
        /\ calls = 0
        /\ history = <<>>
        /\ ~notified

\* the run has returned for date_from = today + 400 days, date_to = today + 450 days
C7_Witness ==
    /\ pc = "done"
    /\ StrpIso(config.date_from) = config.today + 400
    /\ StrpIso(config.date_to) = config.today + 450
    /\ pairs = <<>>
    /\ calls = 0

-----------------------------------------------------------------------------
(* C11: rate limiting between searches.                                    *)

IsSearch(e) == e.ev = "search"
IsSleep(e) == e.ev = "sleep"

\* the run is past its last search
SearchesOver == pc \in {"merge", "done"}

\* C11: in every run the delay is waited exactly once between any two
\* consecutive searches (inside phase 1, inside phase 2, and between the last
\* phase-1 search and the first phase-2 search), and it is not waited after
\* the last search of the run.
C11_DelayBetweenSearches ==
    /\ events # <<>> => IsSearch(events[1])
    /\ \A i \in 1..(Len(events) - 1) :
          /\ IsSearch(events[i]) => IsSleep(events[i + 1])
          /\ IsSleep(events[i]) => IsSearch(events[i + 1])
    /\ SearchesOver /\ events # <<>> => IsSearch(events[Len(events)])

\* a finished run with two phase-1 searches and two phase-2 searches
C11_Witness ==
    /\ pc = "done"
    /\ search_count >= 2
    /\ ret_count >= 2
    /\ \E i \in 1..(Len(events) - 2) :
          /\ IsSearch(events[i]) /\ events[i].phase = 1
          /\ IsSleep(events[i + 1])
          /\ IsSearch(events[i + 2]) /\ events[i + 2].phase = 2

-----------------------------------------------------------------------------
(* C13: which return searches phase 2 issues.                              *)

\* the one-way searches of phase 2, in order, as (return date, origin)
Phase2Queries ==
    LET searches == SelectSeq(events, LAMBDA e : IsSearch(e) /\ e.phase = 2)
    IN  [i \in 1..Len(searches) |-> <<searches[i].query[2], searches[i].query[3]>>]

\* the (return date, origin) combinations of the sampled pairs and the origins
PlannedKeys ==
    {<<pairs[i][2], config.origins[j]>> :
        i \in 1..Len(pairs), j \in 1..Len(config.origins)}

\* a phase-1 offer has this return date and origin
Referenced(key) ==
    \E i \in 1..Len(kept) :
        /\ StrpDmy(kept[i].ret_date) = StrpIso(key[1])
        /\ kept[i].origin_code = key[2]

OncePerKey ==
    \A i, j \in 1..Len(Phase2Queries) :
        Phase2Queries[i] = Phase2Queries[j] => i = j

\* C13 (as amended): phase 2 issues exactly one one-way return search for each
\* distinct (return date, origin) combination of the sampled date pairs with
\* the configured origins, whether or not a phase-1 offer has that
\* combination, and no other one-way search.
C13_OneSearchPerPlannedKey ==
    /\ \A i \in 1..Len(Phase2Queries) : Phase2Queries[i] \in PlannedKeys
    /\ OncePerKey
    /\ SearchesOver /\ pairs # <<>> =>
          {Phase2Queries[i] : i \in 1..Len(Phase2Queries)} = PlannedKeys

\* C13 (as claimed): phase 2 searches a (return date, origin) only if a
\* phase-1 offer references it, and once for each such pair.
C13_AsClaimed ==
    /\ \A i \in 1..Len(Phase2Queries) : Referenced(Phase2Queries[i])
    /\ OncePerKey
    /\ SearchesOver =>
          \A key \in PlannedKeys :
              Referenced(key) => \E i \in 1..Len(Phase2Queries) : Phase2Queries[i] = key

\* a finished run that searched a referenced return and an unreferenced one,
\* with two sampled pairs sharing a return date
C13_Witness ==
    /\ pc = "done"
    /\ \E i, j \in 1..Len(Phase2Queries) :
          Referenced(Phase2Queries[i]) /\ ~Referenced(Phase2Queries[j])
    /\ \E i, j \in 1..Len(pairs) : i # j /\ pairs[i][2] = pairs[j][2]

-----------------------------------------------------------------------------
(* C15: the return-leg detail that phase 2 records.                        *)

ListingsOf(out) == IF out.kind = "ok" THEN out.result.flights ELSE <<>>

\* the positions of the listings within max_stops
Eligible(fl) == {i \in 1..Len(fl) : parse_stops(fl[i].stops) <= config.max_stops}

FirstEligible(fl) == CHOOSE i \in Eligible(fl) : \A j \in Eligible(fl) : i <= j

\* the detail recorded for the key is the one of listing f
DetailIs(info, f) ==
    /\ info # None
    /\ info.ret_airline = f.airline
    /\ info.ret_departure = f.departure
    /\ info.ret_arrival = f.arrival
    /\ info.ret_duration = f.duration
    /\ info.ret_stops = parse_stops(f.stops)

\* the phase-1 offers of a key without recorded detail carry the fallback
FallbackWhereNoDetail ==
    pc = "done" /\ pairs # <<>> =>
        \A i \in 1..Len(kept) :
            LET key == <<StrfIso(StrpDmy(kept[i].ret_date)), kept[i].origin_code>>
            IN  Get(unique_returns, key) = None =>
                    /\ all_flights[i].ret_airline = kept[i].airline
                    /\ all_flights[i].ret_stops = kept[i].stops
                    /\ all_flights[i].ret_stops_detail = kept[i].stops_detail

\* C15: the detail recorded by a phase-2 search is the one of the first
\* listing of the result whose parsed stops are within max_stops, whatever its
\* price and whatever follows it; a search that fails, returns no listing or
\* has no listing within max_stops records nothing, and the offers of that
\* key take the merge fallback.
C15_FirstEligibleReturn ==
    /\ last_search # None /\ last_search.phase = 2 =>
          LET key == <<last_search.query[2], last_search.query[3]>>
              fl  == ListingsOf(last_search.out)
          IN  IF Eligible(fl) = {}
              THEN unique_returns[key] = None
              ELSE DetailIs(unique_returns[key], fl[FirstEligible(fl)])
    /\ FallbackWhereNoDetail

\* a return search whose first eligible listing is the second of three and has
\* no parseable price, with another eligible listing after it
C15_Witness ==
    /\ last_search # None
    /\ last_search.phase = 2
    /\ LET fl == ListingsOf(last_search.out)
       IN  /\ Cardinality(Eligible(fl)) >= 2
           /\ FirstEligible(fl) > 1
           /\ parse_price(fl[FirstEligible(fl)].price) = None
           /\ unique_returns[<<last_search.query[2], last_search.query[3]>>].ret_airline
                  = fl[FirstEligible(fl)].airline

-----------------------------------------------------------------------------
(* C16: the search count announced before the first search.                *)

SearchesMade == Len(SelectSeq(events, IsSearch))

\* C16: the total computed before the first search is
\* |date pairs| * |origins| + |distinct (return date, origin)|, and it is the
\* number of searches the run has made when it reaches the merge step.
C16_TotalIsSearchesMade ==
    /\ pc \in {"phase1", "phase2", "merge"} =>
          total_searches = Len(pairs) * Len(config.origins) + Cardinality(PlannedKeys)
    /\ pc = "merge" => SearchesMade = total_searches

\* the merge step is reached after failed and successful searches, with fewer
\* distinct returns than outbound searches
C16_Witness ==
    /\ pc = "merge"
    /\ errors >= 1
    /\ all_flights # <<>>
    /\ Cardinality(PlannedKeys) < Len(pairs) * Len(config.origins)
    /\ SearchesMade >= 3

-----------------------------------------------------------------------------
(* C14: parse_stops.                                                       *)

Txt_Nonstop == <<"N", "o", "n", "s", "t", "o", "p">>
Txt_1stop == <<"1", " ", "s", "t", "o", "p">>
Txt_2stops == <<"2", " ", "s", "t", "o", "p", "s">>

\* the character is the lower-case letter, in either case
SameLetter(ch, low) ==
    ch = low \/ \E k \in 1..26 : UpperCase[k] = ch /\ LowerCase[k] = low

\* the text has the word when read without regard to case
HasWord(t, w) ==
    \E i \in 1..(Len(t) - Len(w) + 1) :
        \A j \in 1..Len(w) : SameLetter(t[i + j - 1], w[j])

HasNonstopWord(t) ==
    \/ HasWord(t, <<"n", "o", "n", "s", "t", "o", "p">>)
    \/ HasWord(t, <<"d", "i", "r", "e", "t", "t">>)

\* the number written by the digits of t from position i to position j
RECURSIVE NumberAt(_, _, _)
NumberAt(t, i, j) ==
    IF j < i THEN 0 ELSE 10 * NumberAt(t, i, j - 1) + DigitVal(t[j])

\* n is the first unsigned integer embedded in t
IsFirstInteger(t, n) ==
    \E i \in 1..Len(t) : \E j \in i..Len(t) :
        /\ \A k \in 1..(i - 1) : ~IsDigit(t[k])
        /\ \A k \in i..j : IsDigit(t[k])
        /\ j = Len(t) \/ ~IsDigit(t[j + 1])
        /\ n = NumberAt(t, i, j)

\* C14: parse_stops returns an integer >= 0 for every label: 0 for the empty
\* label, 0 when the label has "nonstop" or "dirett" in any case even next to
\* digits, otherwise the first embedded unsigned integer, otherwise 0; so
\* "Nonstop" gives 0, "1 stop" gives 1, "2 stops" gives 2 and "" gives 0.
C14_ParseStops ==
    Called("parse_stops") =>
        LET t == n_in.flights[1].stops
            v == n_out.value
        IN  /\ v \in Nat
            /\ t = <<>> => v = 0
            /\ HasNonstopWord(t) => v = 0
            /\ ~HasNonstopWord(t) /\ (\E i \in 1..Len(t) : IsDigit(t[i])) => IsFirstInteger(t, v)
            /\ ~HasNonstopWord(t) /\ (\A i \in 1..Len(t) : ~IsDigit(t[i])) => v = 0
            /\ t = Txt_Nonstop => v = 0
            /\ t = Txt_1stop => v = 1
            /\ t = Txt_2stops => v = 2

\* parse_stops was applied to a label with a nonstop word followed by a digit
C14_Witness ==
    /\ Called("parse_stops")
    /\ HasNonstopWord(n_in.flights[1].stops)
    /\ \E i \in 1..Len(n_in.flights[1].stops) : IsDigit(n_in.flights[1].stops[i])
    /\ n_out.value = 0

-----------------------------------------------------------------------------
(* C18: the departure-date walk.                                           *)

\* the loop of generate_date_pairs is at its condition
InWalk == pc = "gen_loop"

\* C18: for every integer sample_every_n_days, zero and negative included,
\* and every integer nights_min and nights_max, generate_date_pairs
\* terminates: every iteration of the walk from the clipped start brings the
\* current departure date nearer to the clipped end, which is the only thing
\* that ends the loop.
C18_WalkReachesEnd ==
    [][InWalk /\ InWalk' /\ current <= effective_end(config) => current' > current]_vars

-----------------------------------------------------------------------------
(* C12: the browser of a search.                                           *)

\* _fetch_flights has returned or has let an exception out
FetchOver == f_pc \in {"returned", "raised"}

\* C12: whichever step raises after the launch, the browser is closed when
\* _fetch_flights returns or propagates the exception, and no browser of an
\* earlier search is open when the next search starts.
C12_BrowserClosedOnEveryExit ==
    /\ FetchOver => browser # "open"
    /\ leaked = 0

\* the exits that pass through the finally clause leave no browser open
ClosedAfterFinally ==
    [][f_pc = "finally" => browser' = "closed"]_vars

-----------------------------------------------------------------------------
(* C17: the listings of one Extractor call.                                *)

\* a currency symbol followed by digits, with separators among them
IsPriceToken(p) ==
    /\ Len(p) >= 2
    /\ IsCurrency(p[1])
    /\ \A i \in 2..Len(p) : IsDigit(p[i]) \/ p[i] = "," \/ p[i] = "."
    /\ \E i \in 2..Len(p) : IsDigit(p[i])

\* the items of ul.Rk10dc that the primary path turns into listings
PrimaryAdmits(d) ==
    {i \in 1..Len(d.primary) :
        Len(d.primary[i].text) >= 10 /\ PriceMatch(d.primary[i].text) # <<>>}

Returned == f_pc = "returned"

\* the fallback block runs exactly when the primary path gave no listing, and
\* then every listing comes from an item under role="main"
FallbackIffPrimaryEmpty ==
    Returned =>
        /\ fallback_ran <=> PrimaryAdmits(dom) = {}
        /\ ~fallback_ran => Len(f_result.flights) = Cardinality(PrimaryAdmits(dom))
        /\ fallback_ran => Len(f_result.flights) <= Len(dom.secondary)

\* every listing has a price that starts with a currency symbol and goes on
\* with digits, commas and periods
PriceSymbolThenPriceChars ==
    Returned =>
        \A i \in 1..Len(f_result.flights) :
            LET p == f_result.flights[i].price
            IN  /\ Len(p) >= 2
                /\ IsCurrency(p[1])
                /\ \A k \in 2..Len(p) : IsPriceChar(p[k])

\* C17: every listing returned by one call carries a price token made of a
\* currency symbol followed by digits, and the fallback selectors are used if
\* and only if the primary extraction produced no listing, so that a result
\* never mixes the two paths.
C17_PriceTokenAndOnePath ==
    /\ Returned => \A i \in 1..Len(f_result.flights) : IsPriceToken(f_result.flights[i].price)
    /\ FallbackIffPrimaryEmpty

\* a listing with empty airline, duration and stops labels was returned
EmptyLabelsReturned ==
    /\ Returned
    /\ \E i \in 1..Len(f_result.flights) :
          /\ f_result.flights[i].airline = <<>>
          /\ f_result.flights[i].duration = <<>>
          /\ f_result.flights[i].stops = <<>>

=============================================================================
